---- MODULE Spec2Model ----
(***************************************************************************)
(* Job registry and job runners of the car-auction scraper API.            *)
(*                                                                         *)
(* app.py keeps every job in the module-level dict scraping_jobs and       *)
(* drives it from two kinds of runner: classic_valuer jobs run as a        *)
(* coroutine on the event loop (BackgroundTasks), classic_com jobs run in  *)
(* a worker thread (threading.Thread).  The runner code is                 *)
(* run_classic_*_background in app.py, which calls scrape_classic_*_       *)
(* background of scraper_integration.py when the import at app.py:19-29    *)
(* succeeded and an inline simulation otherwise.                           *)
(*                                                                         *)
(* A runner's position is the source line it executes next: app.py lines   *)
(* 96-167 and scraper_integration.py lines 240-302 do not overlap, so the  *)
(* line number alone names the statement.  A worker thread takes one       *)
(* statement per step (the interpreter may switch threads between any two  *)
(* statements); a coroutine runs without interruption from one await to    *)
(* the next, and so do the HTTP handlers (async def without await).        *)
(* Handlers and coroutine blocks are single steps here: each reads or      *)
(* writes the entry of one id, and a thread statement scheduled inside     *)
(* one leaves the registry as the same statement taken just before or      *)
(* just after it does, unless the two work on the same id.                 *)
(*                                                                         *)
(* Spec is the registry with its runners, for which a scraper run is one   *)
(* call that returns a result.  SpecRuns takes the scrapers themselves     *)
(* row by row (run_classic_com_scraper_real, classic/classic.py and        *)
(* ImprovedClassicValuerScraper.scrape) with the csv files they read and   *)
(* write, and SpecDup is is_duplicate applied to any row and any list of   *)
(* existing entries.  SpecValid is one turn of the loop of                 *)
(* process_vehicle_listings, with is_valid_vehicle_listing applied to any  *)
(* parsed listing.  SpecLive is the registry with the requests that create *)
(* and delete jobs and the runners under fair scheduling.                  *)
(***************************************************************************)
EXTENDS Integers, Sequences, FiniteSets, TLC

\* ------------------------------------------------------------------ bounds
\* Size of the id space: str(uuid.uuid4())[:8] draws one of 16^8 ids.
MaxIds == 2
\* Number of POST /scrape requests that register a job.
MaxJobs == 2
\* Distinct values datetime.now() formats to during a run.
MaxStamp == 2
\* Largest number of listings one scraper run returns.
MaxListings == 2

\* Largest number of rows in existing_entries when is_duplicate is called.
MaxExisting == 2
\* Number of scraper runs taken row by row.
MaxRuns == 2
\* Largest number of listings one such run scrapes.
MaxFragments == 2

JobIds == 1..MaxIds
Stamps == 1..MaxStamp

\* ----------------------------------------------------------- program data
\* result[...][:10] at scraper_integration.py:258 and :291, app.py:155.
PreviewLimit == 10
\* 'records_found': 12 of the classic_valuer simulation.
SimValuerRecordsFound == 12
\* The three literal records each simulation returns.
SimResultsLen == 3
\* The tolerance 0.05 of is_duplicate, as the fraction 1/20.
ToleranceNum == 1
ToleranceDen == 20
\* int() reads decimal digits.
Base == 10

ScraperTypes == {"classic_valuer", "classic_com"}
RequestTypes == ScraperTypes \cup {"other"}
Terminal == {"completed", "failed"}

\* Python's None for csv_file, and the names of the files the scrapers write.
None == [base |-> "None", stamp |-> 0]
FileName(base, t) == [base |-> base, stamp |-> t]
\* save_results_csv always writes the same file.
ValuerCsv == FileName("classic_valuer_improved.csv", 0)

\* A list of n listings; a listing is identified by its position in the run.
ListOf(n) == [i \in 1..n |-> i]
Listings == {ListOf(n) : n \in 0..MaxListings}

\* seq[:n]
Take(seq, n) == IF Len(seq) <= n THEN seq ELSE SubSeq(seq, 1, n)

Msg(text, detail) == [text |-> text, detail |-> detail]

\* A scraper's return value; results/csv_file are absent from some of the
\* dicts the code returns and are then read with .get(), giving []/None.
Result(success, n, csv, results, error) ==
    [success |-> success, records_found |-> n, csv_file |-> csv,
     results |-> results, error |-> error]
NoResult == Result(FALSE, 0, None, <<>>, "")

VARIABLES
    SCRAPERS_AVAILABLE,  \* app.py:19-29, fixed when the module is imported
    scraping_jobs,       \* app.py:38, job id -> job dict
    runners,             \* one runner per registered job, in creation order
    files,               \* the working directory: file name -> rows
    response,            \* the reply of the handler that has just run
    call,                \* one call of is_duplicate: arguments and outcome
    runs,                \* the scraper runs, each at its row-level position
    candidate            \* one turn of the loop of process_vehicle_listings

vars == <<SCRAPERS_AVAILABLE, scraping_jobs, runners, files, response,
          call, runs, candidate>>

\* The registry and its runners, and the row-level state of the scrapers:
\* the job runners below see a scraper run as one call that returns a
\* result; the scraper runs further down take it row by row.
registry == <<SCRAPERS_AVAILABLE, scraping_jobs, runners, response>>
scrapers == <<call, runs, candidate>>

\* ----------------------------------------------------------- dict helpers
Put(f, k, v) == [x \in (DOMAIN f) \cup {k} |-> IF x = k THEN v ELSE f[x]]
Del(f, k) == [x \in (DOMAIN f) \ {k} |-> f[x]]
Empty == [x \in {} |-> 0]

\* The dict literal of start_scraping.  obj is the identity of the dict
\* object (the index of the request that created it); no code reads it.
\* started_at and options are never written again and are left out.
NewJob(id, type, obj) ==
    [job_id |-> id, status |-> "pending",
     message |-> Msg("scraping job queued for processing", type),
     progress |-> 0, total_records |-> 0, results |-> <<>>,
     csv_file |-> None, completed_at |-> 0, scraper_type |-> type,
     obj |-> obj]

\* scraping_jobs[job_id][field] = value, for a job_id that is a key.
SetItem(jobs, id, field, value) == [jobs EXCEPT ![id][field] = value]

\* ------------------------------------------------------------- the runner
NewRunner(id, type) ==
    [id |-> id, scraper_type |-> type, phase |-> "running",
     line |-> IF type = "classic_valuer" THEN 96 ELSE 134,
     call |-> "none", result |-> NoResult, exc |-> "", output_csv |-> None]

\* The lines that call a scraper (and, in a coroutine, await it).
CallLines == {108, 146, 249, 282}

\* The registry field each statement assigns.
Field(line) ==
    CASE line \in {96, 114, 121, 127, 134, 152, 159, 165,
                   240, 255, 262, 266, 274, 288, 295, 299} -> "status"
      [] line \in {97, 106, 111, 115, 122, 128, 135, 144, 149, 153, 160, 166,
                   241, 246, 252, 256, 263, 267, 275, 278, 285, 289, 296, 300}
                                                          -> "message"
      [] line \in {98, 105, 110, 119, 136, 143, 148, 157,
                   242, 245, 251, 260, 276, 279, 284, 293} -> "progress"
      [] line \in {116, 154, 257, 290} -> "total_records"
      [] line \in {117, 155, 258, 291} -> "results"
      [] line \in {118, 156, 259, 292} -> "csv_file"
      [] line \in {124, 129, 162, 167, 269, 302} -> "completed_at"

\* The value each statement assigns; t is what datetime.now() returns.
Value(r, t) ==
    LET line == r.line IN
    CASE line \in {96, 134, 240, 274} -> "running"
      [] line \in {114, 152, 255, 288} -> "completed"
      [] line \in {121, 159, 262, 295, 127, 165, 266, 299} -> "failed"
      [] line \in {97, 241} -> Msg("Initializing Classic Valuer scraper...", "")
      [] line \in {135, 275} -> Msg("Initializing Classic.com scraper...", "")
      [] line \in {106, 144} -> Msg("Running simulation (real scrapers not available)...", "")
      [] line \in {111, 149} -> Msg("Processing simulated results...", "")
      [] line \in {115, 153} -> Msg("Simulation completed", "")
      [] line \in {122, 160} -> Msg("Simulation failed", r.result.error)
      [] line \in {128, 166} -> Msg("Error", r.exc)
      [] line = 246 -> Msg("Launching browser and navigating to market page...", "")
      [] line = 252 -> Msg("Processing and saving results...", "")
      [] line = 256 -> Msg("Successfully scraped records from Classic Valuer", "")
      [] line = 263 -> Msg("Classic Valuer scraping failed", r.result.error)
      [] line = 267 -> Msg("Error in Classic Valuer scraper", r.exc)
      [] line = 278 -> Msg("Launching browser and fetching listings...", "")
      [] line = 285 -> Msg("Processing results...", "")
      [] line = 289 -> Msg("Successfully scraped records from Classic.com", "")
      [] line = 296 -> Msg("Classic.com scraping failed", r.result.error)
      [] line = 300 -> Msg("Error in Classic.com scraper", r.exc)
      [] line \in {98, 136, 242, 276} -> 10
      [] line \in {105, 245} -> 25
      [] line \in {143, 279} -> 30
      [] line \in {110, 251} -> 75
      [] line \in {148, 284} -> 80
      [] line \in {119, 157, 260, 293} -> 100
      [] line \in {116, 154, 257, 290} -> r.result.records_found
      [] line = 117 -> r.result.results
      [] line \in {155, 258, 291} -> Take(r.result.results, PreviewLimit)
      [] line \in {118, 156, 259, 292} -> r.result.csv_file
      [] line \in {124, 129, 162, 167, 269, 302} -> t

\* The statement executed after `line` returns normally; 0: the runner's
\* function returns.  `if result['success']` is folded into the line
\* before it, since it reads only the runner's local variable.
NextLine(line, real, success) ==
    CASE line = 98 -> IF real THEN 240 ELSE 105
      [] line = 136 -> IF real THEN 274 ELSE 143
      [] line = 111 -> IF success THEN 114 ELSE 121
      [] line = 149 -> IF success THEN 152 ELSE 159
      [] line = 252 -> IF success THEN 255 ELSE 262
      [] line = 285 -> IF success THEN 288 ELSE 295
      [] line = 106 -> 108
      [] line = 108 -> 110
      [] line = 144 -> 146
      [] line = 146 -> 148
      [] line = 242 -> 245
      [] line = 246 -> 249
      [] line = 249 -> 251
      [] line = 276 -> 278
      [] line = 279 -> 282
      [] line = 282 -> 284
      [] line \in {119, 122} -> 124
      [] line \in {157, 160} -> 162
      [] line \in {260, 263, 267} -> 269
      [] line \in {293, 296, 300} -> 302
      [] line \in {124, 129, 162, 167, 269, 302} -> 0
      [] OTHER -> line + 1

\* Where an exception raised at `line` is caught: the except clause of the
\* enclosing try; 0: no try encloses the line and the exception leaves
\* run_classic_*_background.
Handler(line) ==
    CASE line \in 96..124 -> 127
      [] line \in 134..162 -> 165
      [] line \in 240..263 -> 266
      [] line \in 274..296 -> 299
      [] line \in {266, 267, 269} -> 127
      [] line \in {299, 300, 302} -> 165
      [] OTHER -> 0

Goto(r, line) ==
    IF line = 0 THEN [r EXCEPT !.phase = "done", !.line = 0]
    ELSE [r EXCEPT !.line = line]

\* An exception of type exc is raised at r.line.
Raise(r, exc) ==
    IF Handler(r.line) = 0 THEN [r EXCEPT !.phase = "raised", !.line = 0, !.exc = exc]
    ELSE [r EXCEPT !.line = Handler(r.line), !.exc = exc]

\* One assignment scraping_jobs[job_id][...] = ...: KeyError when job_id is
\* not a key of the dict.
Statement(jobs, r, t) ==
    IF r.id \in DOMAIN jobs
    THEN [jobs |-> SetItem(jobs, r.id, Field(r.line), Value(r, t)),
          r |-> Goto(r, NextLine(r.line, SCRAPERS_AVAILABLE, r.result.success))]
    ELSE [jobs |-> jobs, r |-> Raise(r, "KeyError")]

\* A coroutine runs its statements without interruption up to the next await.
\* (s is the outcome of the statement at r.line, bound once.)
RECURSIVE RunToAwait(_, _, _)
RunToAwait(jobs, r, t) ==
    IF r.phase # "running" \/ r.line \in CallLines
    THEN [jobs |-> jobs, r |-> r]
    ELSE CHOOSE end \in { RunToAwait(s.jobs, s.r, t) :
                              s \in {Statement(jobs, r, t)} } : TRUE

\* ------------------------------------------------- rows and is_duplicate
\* A scraped row with the columns the duplicate test reads: Make, Model,
\* "Date of Sale" (Date) and "Sold Price" (Price).  A text is a sequence of
\* characters.
Row(make, model, date, price) ==
    [Make |-> make, Model |-> model, Date |-> date, Price |-> price]

Digits == <<"0", "1", "2", "3", "4", "5", "6", "7", "8", "9">>
IsDigit(c) == \E d \in 1..Len(Digits) : Digits[d] = c
DigitValue(c) == (CHOOSE d \in 1..Len(Digits) : Digits[d] = c) - 1

\* int(digits) for a non-empty text of digits.
RECURSIVE DecimalValue(_)
DecimalValue(digits) ==
    IF digits = <<>> THEN 0
    ELSE Base * DecimalValue(SubSeq(digits, 1, Len(digits) - 1))
             + DigitValue(digits[Len(digits)])

\* The outcome of a call: the value it returns, or the exception it raises.
\* (value is a placeholder of the type the call returns.)
Returns(value) == [raised |-> "", value |-> value]
Raises(exc) == [raised |-> exc, value |-> 0]
RaisesInTest(exc) == [raised |-> exc, value |-> FALSE]

\* int(re.sub(r"[^\d]", "", price_str)): int('') raises ValueError.
normalize_price(price_str) ==
    LET digits == SelectSeq(price_str, IsDigit) IN
    IF digits = <<>> THEN Raises("ValueError")
    ELSE Returns(DecimalValue(digits))

Abs(x) == IF x < 0 THEN -x ELSE x

\* abs(existing_price - new_price) / new_price <= 0.05 for integers with
\* new_price # 0: the quotient is the float nearest to the exact ratio and
\* 0.05 is the float nearest to 1/20, so the test is exact for every price
\* below 10^16.
WithinTolerance(existing_price, new_price) ==
    ToleranceDen * Abs(existing_price - new_price) <= ToleranceNum * new_price

\* The for loop of is_duplicate from the k-th existing entry on.  The `and`
\* chain evaluates the division only when the three columns are equal.
RECURSIVE is_duplicate_loop(_, _, _, _)
is_duplicate_loop(new_row, new_price, existing_entries, k) ==
    IF k > Len(existing_entries) THEN Returns(FALSE)
    ELSE LET existing == existing_entries[k]
             existing_price == normalize_price(existing.Price)
         IN  IF existing_price.raised # "" THEN RaisesInTest(existing_price.raised)
             ELSE IF /\ new_row.Make = existing.Make
                     /\ new_row.Model = existing.Model
                     /\ new_row.Date = existing.Date
             THEN IF new_price = 0 THEN RaisesInTest("ZeroDivisionError")
                  ELSE IF WithinTolerance(existing_price.value, new_price)
                  THEN Returns(TRUE)
                  ELSE is_duplicate_loop(new_row, new_price, existing_entries, k + 1)
             ELSE is_duplicate_loop(new_row, new_price, existing_entries, k + 1)

\* is_duplicate(new_row) against the list existing_entries.
is_duplicate(new_row, existing_entries) ==
    LET new_price == normalize_price(new_row.Price) IN
    IF new_price.raised # "" THEN RaisesInTest(new_price.raised)
    ELSE is_duplicate_loop(new_row, new_price.value, existing_entries, 1)

\* The texts the rows are drawn from.  Makes and models differ in letter
\* case only; a date is a sale date or the "Unknown" of a failed strptime.
\* Prices: no digit at all, zero, and amounts 5% and 6% about 100.
Makes == {"Ferrari", "FERRARI"}
Models == {"F430", "f430"}
Dates == {"01/07/2024", "Unknown"}
\* The pound sign that convert_usd_to_gbp puts before the amount.
Pound == "GBP"
PriceTexts ==
    { <<>>, <<"N", "/", "A">>, <<Pound, "0">>,
      <<Pound, "9", "4">>, <<Pound, "9", "5">>, <<Pound, "1", "0", "0">>,
      <<Pound, "1", "0", "5">>, <<Pound, "1", "0", "6">>, <<Pound, "1", ",", "0", "0", "0">> }
Rows ==
    { Row(make, model, date, price) :
          make \in Makes, model \in Models, date \in Dates, price \in PriceTexts }
RowLists(n) == UNION { [1..k -> Rows] : k \in 0..n }

\* No call of is_duplicate.
NotCalled == [raised |-> "not called", value |-> FALSE]
NoCall ==
    [new_row |-> Row("", "", "", <<>>), existing_entries |-> <<>>,
     outcome |-> NotCalled]

\* ------------------------------------------------ is_valid_vehicle_listing
\* The dict parse_listing_text returns, with the keys the validity test
\* reads.  make, model and production_year are words; sold_price and
\* description are texts.
VehicleData(make, model, production_year, sold_price, description) ==
    [make |-> make, model |-> model, production_year |-> production_year,
     sold_price |-> sold_price, description |-> description]

\* len(...) > 20 and criteria_met >= 2 of is_valid_vehicle_listing.
DescriptionThreshold == 20
MinCriteria == 2

\* str.strip(): the text without its leading and trailing blanks.
RECURSIVE lstrip(_)
lstrip(text) ==
    IF text # <<>> /\ Head(text) = " " THEN lstrip(Tail(text)) ELSE text
RECURSIVE rstrip(_)
rstrip(text) ==
    IF text # <<>> /\ text[Len(text)] = " "
    THEN rstrip(SubSeq(text, 1, Len(text) - 1)) ELSE text
strip(text) == rstrip(lstrip(text))

\* sum() of a list of booleans.
RECURSIVE sum(_)
sum(bools) ==
    IF bools = <<>> THEN 0
    ELSE (IF Head(bools) THEN 1 ELSE 0) + sum(Tail(bools))

\* is_valid_vehicle_listing with criteria_met >= 1.
is_valid_vehicle_listingOneCriterion(vehicle_data) ==
    LET has_make_or_model == vehicle_data.make # "" \/ vehicle_data.model # ""
        has_year == vehicle_data.production_year # ""
        has_price == vehicle_data.sold_price # <<>>
        has_meaningful_description ==
            Len(strip(vehicle_data.description)) > DescriptionThreshold
        criteria_met ==
            sum(<<has_make_or_model, has_year, has_price,
                  has_meaningful_description>>)
    IN  criteria_met >= 1

\* bool() of a str is whether it is non-empty.
is_valid_vehicle_listing(vehicle_data) ==
    LET has_make_or_model == vehicle_data.make # "" \/ vehicle_data.model # ""
        has_year == vehicle_data.production_year # ""
        has_price == vehicle_data.sold_price # <<>>
        has_meaningful_description ==
            Len(strip(vehicle_data.description)) > DescriptionThreshold
        criteria_met ==
            sum(<<has_make_or_model, has_year, has_price,
                  has_meaningful_description>>)
    IN  criteria_met >= MinCriteria

\* A description of n characters, words of four letters with a blank
\* between them.  clean_description_text ends with .strip(), so a
\* description neither begins nor ends with a blank.
Description(n) == [k \in 1..n |-> IF k % 5 = 0 /\ k < n THEN " " ELSE "x"]

\* What parse_listing_text can return: extract_make_model_improved gives a
\* model only with a make; the year and the price are there or not; the
\* description has no character, 10, 20 or 21.
VehicleDatas ==
    { VehicleData(mm[1], mm[2], production_year, sold_price, Description(n)) :
          mm \in {<<"", "">>, <<"Ferrari", "">>, <<"Ferrari", "F430">>},
          production_year \in {"", "1962"},
          sold_price \in {<<>>, <<Pound, "1", "0", "0">>},
          n \in {0, 10, DescriptionThreshold, DescriptionThreshold + 1} }

\* A listing accepted earlier in the loop.
Accepted ==
    VehicleData("Porsche", "911", "1973", <<Pound, "9", "5">>, Description(30))

\* No turn of the loop.
NoCandidate ==
    [vehicle_data |-> VehicleData("", "", "", <<>>, <<>>),
     processed_listings |-> <<>>, outcome |-> NotCalled]

\* -------------------------------------------------------------- responses
NoResponse == [op |-> "none", id |-> 0, code |-> 0, jobs |-> Empty, data |-> <<>>]
Reply(op, id, code, jobs, data) ==
    [op |-> op, id |-> id, code |-> code, jobs |-> jobs, data |-> data]

Init ==
    /\ SCRAPERS_AVAILABLE \in BOOLEAN
    /\ scraping_jobs = Empty
    /\ runners = <<>>
    /\ files = Empty
    /\ response = NoResponse
    /\ call = NoCall
    /\ runs = <<>>
    /\ candidate = NoCandidate


\* ------------------------------------------------------------ HTTP handlers
\* Every action below waits for the previous reply to be sent: a handler
\* runs to completion on the event loop, so recording its reply and sending
\* it at once loses no interleaving of the program's own state.
Idle == response = NoResponse

\* start_scraping as it would be without the else branch that raises the
\* 400: the job is registered whatever the scraper type is.
start_scrapingUnchecked(type, id) ==
    /\ Idle
    /\ UNCHANGED scrapers
    /\ Len(runners) < MaxJobs
    /\ scraping_jobs' =
           Put(scraping_jobs, id, NewJob(id, type, Len(runners) + 1))
    /\ runners' = Append(runners, NewRunner(id, type))
    /\ response' = Reply("start_scraping", id, 200, Empty, <<>>)
    /\ UNCHANGED <<SCRAPERS_AVAILABLE, files>>

\* POST /scrape.  The id is drawn before the scraper type is checked (the
\* 400 reply does not carry it), and the new dict is stored under it whether
\* or not the id is already a key.
start_scraping(type, id) ==
    /\ Idle
    /\ UNCHANGED scrapers
    /\ IF type \notin ScraperTypes
       THEN /\ response' = Reply("start_scraping", 0, 400, Empty, <<>>)
            /\ UNCHANGED <<SCRAPERS_AVAILABLE, scraping_jobs, runners, files>>
       ELSE /\ Len(runners) < MaxJobs
            /\ scraping_jobs' =
                   Put(scraping_jobs, id, NewJob(id, type, Len(runners) + 1))
            /\ runners' = Append(runners, NewRunner(id, type))
            /\ response' = Reply("start_scraping", id, 200, Empty, <<>>)
            /\ UNCHANGED <<SCRAPERS_AVAILABLE, files>>

\* GET /status/{job_id}
get_job_status(id) ==
    /\ Idle
    /\ UNCHANGED scrapers
    /\ response' =
           IF id \notin DOMAIN scraping_jobs
           THEN Reply("get_job_status", id, 404, Empty, <<>>)
           ELSE Reply("get_job_status", id, 200,
                      Put(Empty, id, scraping_jobs[id]), <<>>)
    /\ UNCHANGED <<SCRAPERS_AVAILABLE, scraping_jobs, runners, files>>

\* GET /jobs
get_all_jobs ==
    /\ Idle
    /\ UNCHANGED scrapers
    /\ response' = Reply("get_all_jobs", 0, 200, scraping_jobs, <<>>)
    /\ UNCHANGED <<SCRAPERS_AVAILABLE, scraping_jobs, runners, files>>

\* DELETE /jobs/{job_id}: unlink the job's csv_file if it names one
\* (missing_ok), then del scraping_jobs[job_id].
delete_job(id) ==
    /\ Idle
    /\ UNCHANGED scrapers
    /\ IF id \in DOMAIN scraping_jobs
       THEN /\ files' = IF scraping_jobs[id].csv_file # None
                        THEN Del(files, scraping_jobs[id].csv_file)
                        ELSE files
            /\ scraping_jobs' = Del(scraping_jobs, id)
            /\ response' = Reply("delete_job", id, 200, Empty, <<>>)
       ELSE /\ response' = Reply("delete_job", id, 404, Empty, <<>>)
            /\ UNCHANGED <<scraping_jobs, files>>
    /\ UNCHANGED <<SCRAPERS_AVAILABLE, runners>>

\* get_job_results as it would be without the test of job['status'].
get_job_resultsUnchecked(id) ==
    /\ Idle
    /\ UNCHANGED scrapers
    /\ response' =
           IF id \notin DOMAIN scraping_jobs
           THEN Reply("get_job_results", id, 404, Empty, <<>>)
           ELSE LET job == scraping_jobs[id] IN
                IF job.csv_file # None /\ job.csv_file \in DOMAIN files
                THEN Reply("get_job_results", id, 200, Empty, files[job.csv_file])
                ELSE Reply("get_job_results", id, 200, Empty, job.results)
    /\ UNCHANGED <<SCRAPERS_AVAILABLE, scraping_jobs, runners, files>>

\* GET /results/{job_id}: the rows of the job's csv file when it exists,
\* the job's preview otherwise.
get_job_results(id) ==
    /\ Idle
    /\ UNCHANGED scrapers
    /\ response' =
           IF id \notin DOMAIN scraping_jobs
           THEN Reply("get_job_results", id, 404, Empty, <<>>)
           ELSE LET job == scraping_jobs[id] IN
                IF job.status # "completed"
                THEN Reply("get_job_results", id, 400, Empty, <<>>)
                ELSE IF job.csv_file # None /\ job.csv_file \in DOMAIN files
                THEN Reply("get_job_results", id, 200, Empty, files[job.csv_file])
                ELSE Reply("get_job_results", id, 200, Empty, job.results)
    /\ UNCHANGED <<SCRAPERS_AVAILABLE, scraping_jobs, runners, files>>

\* The reply is sent to the client.
SendResponse ==
    /\ response # NoResponse
    /\ response' = NoResponse
    /\ UNCHANGED scrapers
    /\ UNCHANGED <<SCRAPERS_AVAILABLE, scraping_jobs, runners, files>>

\* The rows a writer that opens with 'w' can leave when the write fails:
\* the file as it was (it could not be opened) or emptied.
AfterFailedWrite(name) == {files} \cup {Put(files, name, <<>>)}

\* ------------------------------------------- classic_com: the worker thread
IsThread(i) ==
    /\ i \in 1..Len(runners)
    /\ runners[i].scraper_type = "classic_com"
    /\ runners[i].phase = "running"

\* One statement of run_classic_com_background or
\* scrape_classic_com_background.
ThreadStatement(i) ==
    /\ Idle
    /\ UNCHANGED scrapers
    /\ IsThread(i)
    /\ runners[i].line \notin CallLines
    /\ \E t \in Stamps :
           LET s == Statement(scraping_jobs, runners[i], t) IN
           /\ scraping_jobs' = s.jobs
           /\ runners' = [runners EXCEPT ![i] = s.r]
    /\ UNCHANGED <<SCRAPERS_AVAILABLE, files, response>>

\* run_classic_com_scraper_real, entered from line 282: OUTPUT_CSV is named
\* after the current second.
run_classic_com_scraper_real_begin(i) ==
    /\ Idle
    /\ UNCHANGED scrapers
    /\ IsThread(i)
    /\ runners[i].line = 282
    /\ runners[i].call = "none"
    /\ \E t \in Stamps :
           runners' = [runners EXCEPT ![i].call = "started",
                                      ![i].output_csv = FileName("classic_com", t)]
    /\ UNCHANGED <<SCRAPERS_AVAILABLE, scraping_jobs, files, response>>

\* The dict run_classic_com_scraper_real returns for the rows it accepted.
ClassicComResult(new_data, output_csv) ==
    Result(TRUE, Len(new_data),
           IF new_data # <<>> THEN output_csv ELSE None, new_data, "")

\* run_classic_com_scraper_real returns: either the rows it accepted,
\* written to OUTPUT_CSV when there are any, or the failure its own
\* except clause turned an exception into, df.to_csv's ("write error")
\* or any other.
run_classic_com_scraper_real_end(i) ==
    /\ Idle
    /\ UNCHANGED scrapers
    /\ IsThread(i)
    /\ runners[i].line = 282
    /\ runners[i].call = "started"
    /\ \/ \E new_data \in Listings :
            /\ files' = IF new_data # <<>>
                        THEN Put(files, runners[i].output_csv, new_data)
                        ELSE files
            /\ runners' = [runners EXCEPT
                   ![i].result = ClassicComResult(new_data, runners[i].output_csv),
                   ![i].call = "none",
                   ![i].line = NextLine(282, TRUE, TRUE)]
       \/ /\ files' = files
          /\ runners' = [runners EXCEPT
                 ![i].result = Result(FALSE, 0, None, <<>>, "scraper error"),
                 ![i].call = "none",
                 ![i].line = NextLine(282, TRUE, FALSE)]
       \/ /\ files' \in AfterFailedWrite(runners[i].output_csv)
          /\ runners' = [runners EXCEPT
                 ![i].result = Result(FALSE, 0, None, <<>>, "write error"),
                 ![i].call = "none",
                 ![i].line = NextLine(282, TRUE, FALSE)]
    /\ UNCHANGED <<SCRAPERS_AVAILABLE, scraping_jobs, response>>

\* simulate_classic_com_scraper, called from line 146: writes its three
\* rows to classic_com_sim_<timestamp>.csv, or df.to_csv raises.
simulate_classic_com_scraper(i) ==
    /\ Idle
    /\ UNCHANGED scrapers
    /\ IsThread(i)
    /\ runners[i].line = 146
    /\ \/ \E t \in Stamps :
            LET csv_filename == FileName("classic_com_sim", t) IN
            /\ files' = Put(files, csv_filename, ListOf(SimResultsLen))
            /\ runners' = [runners EXCEPT
                   ![i].result = Result(TRUE, SimResultsLen, csv_filename,
                                        ListOf(SimResultsLen), ""),
                   ![i].line = NextLine(146, FALSE, TRUE)]
       \/ /\ files' = files
          /\ runners' = [runners EXCEPT ![i] = Raise(runners[i], "OSError")]
    /\ UNCHANGED <<SCRAPERS_AVAILABLE, scraping_jobs, response>>

\* ------------------------------------------ classic_valuer: the coroutine
IsCoroutine(i) ==
    /\ i \in 1..Len(runners)
    /\ runners[i].scraper_type = "classic_valuer"
    /\ runners[i].phase = "running"

\* The coroutine runs on from r.line and suspends in the next scraper call.
Resume(jobs, r, t) ==
    LET s == RunToAwait(jobs, r, t) IN
    [jobs |-> s.jobs,
     r |-> IF s.r.phase = "running" THEN [s.r EXCEPT !.call = "started"] ELSE s.r]

\* The background task starts: run_classic_valuer_background up to its
\* first await.
run_classic_valuer_background(i) ==
    /\ Idle
    /\ UNCHANGED scrapers
    /\ IsCoroutine(i)
    /\ runners[i].line = 96
    /\ \E t \in Stamps :
           LET s == Resume(scraping_jobs, runners[i], t) IN
           /\ scraping_jobs' = s.jobs
           /\ runners' = [runners EXCEPT ![i] = s.r]
    /\ UNCHANGED <<SCRAPERS_AVAILABLE, files, response>>

\* The dict ImprovedClassicValuerScraper.scrape returns for its listings.
ClassicValuerResult(listings) ==
    IF listings # <<>>
    THEN Result(TRUE, Len(listings), ValuerCsv, Take(listings, PreviewLimit), "")
    ELSE Result(FALSE, 0, None, <<>>, "No valid listings found")

\* ImprovedClassicValuerScraper.scrape, awaited at line 249: the listings
\* are saved to classic_valuer_improved.csv (opened with 'w') when there are
\* any, or an exception, save_results_csv's ("write error") or any other,
\* becomes a failure; then scrape awaits close().
scrape(i) ==
    /\ Idle
    /\ UNCHANGED scrapers
    /\ IsCoroutine(i)
    /\ runners[i].line = 249
    /\ runners[i].call = "started"
    /\ \/ \E listings \in Listings :
            /\ files' = IF listings # <<>>
                        THEN Put(files, ValuerCsv, listings)
                        ELSE files
            /\ runners' = [runners EXCEPT
                   ![i].result = ClassicValuerResult(listings),
                   ![i].call = "closing"]
       \/ /\ files' = files
          /\ runners' = [runners EXCEPT
                 ![i].result = Result(FALSE, 0, None, <<>>, "scraper error"),
                 ![i].call = "closing"]
       \/ /\ files' \in AfterFailedWrite(ValuerCsv)
          /\ runners' = [runners EXCEPT
                 ![i].result = Result(FALSE, 0, None, <<>>, "write error"),
                 ![i].call = "closing"]
    /\ UNCHANGED <<SCRAPERS_AVAILABLE, scraping_jobs, response>>

\* close() returns (or raises, which replaces scrape's return value by the
\* failure run_classic_valuer_scraper_real makes of it) and
\* scrape_classic_valuer_background runs on from line 251 to its end.
scrape_classic_valuer_background(i) ==
    /\ Idle
    /\ UNCHANGED scrapers
    /\ IsCoroutine(i)
    /\ runners[i].line = 249
    /\ runners[i].call = "closing"
    /\ \E t \in Stamps, closed \in BOOLEAN :
           LET result == IF closed THEN runners[i].result
                         ELSE Result(FALSE, 0, None, <<>>, "close error")
               r == [runners[i] EXCEPT !.result = result, !.call = "none",
                                       !.line = NextLine(249, TRUE, result.success)]
               s == Resume(scraping_jobs, r, t)
           IN  /\ scraping_jobs' = s.jobs
               /\ runners' = [runners EXCEPT ![i] = s.r]
    /\ UNCHANGED <<SCRAPERS_AVAILABLE, files, response>>

\* simulate_classic_valuer_scraper, awaited at line 108: asyncio.sleep
\* returns, the literal result is returned (no file is written) and
\* run_classic_valuer_background runs on from line 110 to its end.
simulate_classic_valuer_scraper(i) ==
    /\ Idle
    /\ UNCHANGED scrapers
    /\ IsCoroutine(i)
    /\ runners[i].line = 108
    /\ runners[i].call = "started"
    /\ \E t \in Stamps, u \in Stamps :
           LET result == Result(TRUE, SimValuerRecordsFound,
                                FileName("classic_valuer_sim", u),
                                ListOf(SimResultsLen), "")
               r == [runners[i] EXCEPT !.result = result, !.call = "none",
                                       !.line = NextLine(108, FALSE, TRUE)]
               s == Resume(scraping_jobs, r, t)
           IN  /\ scraping_jobs' = s.jobs
               /\ runners' = [runners EXCEPT ![i] = s.r]
    /\ UNCHANGED <<SCRAPERS_AVAILABLE, files, response>>

Next ==
    \/ \E type \in RequestTypes, id \in JobIds : start_scraping(type, id)
    \/ \E id \in JobIds : get_job_status(id)
    \/ get_all_jobs
    \/ \E id \in JobIds : delete_job(id)
    \/ \E id \in JobIds : get_job_results(id)
    \/ SendResponse
    \/ \E i \in 1..MaxJobs : ThreadStatement(i)
    \/ \E i \in 1..MaxJobs : run_classic_com_scraper_real_begin(i)
    \/ \E i \in 1..MaxJobs : run_classic_com_scraper_real_end(i)
    \/ \E i \in 1..MaxJobs : simulate_classic_com_scraper(i)
    \/ \E i \in 1..MaxJobs : run_classic_valuer_background(i)
    \/ \E i \in 1..MaxJobs : scrape(i)
    \/ \E i \in 1..MaxJobs : scrape_classic_valuer_background(i)
    \/ \E i \in 1..MaxJobs : simulate_classic_valuer_scraper(i)

Spec == Init /\ [][Next]_vars

\* ------------------------------------------------- jobs under fairness
\* A step of the runner of job i.
RunnerStep(i) ==
    \/ ThreadStatement(i)
    \/ run_classic_com_scraper_real_begin(i)
    \/ run_classic_com_scraper_real_end(i)
    \/ simulate_classic_com_scraper(i)
    \/ run_classic_valuer_background(i)
    \/ scrape(i)
    \/ scrape_classic_valuer_background(i)
    \/ simulate_classic_valuer_scraper(i)

\* The requests that create and delete jobs, and the runners.
NextLive ==
    \/ \E type \in RequestTypes, id \in JobIds : start_scraping(type, id)
    \/ \E id \in JobIds : delete_job(id)
    \/ SendResponse
    \/ \E i \in 1..MaxJobs : RunnerStep(i)

\* Every reply is sent; the event loop resumes a coroutine whose await has
\* returned, the interpreter schedules a thread that can run, and every
\* scraper call returns or raises.  A runner can take its step whenever no
\* handler stands between its reply and the sending of it, which is again
\* and again, so the fairness of its scheduling is strong fairness here.
SpecLive ==
    /\ Init
    /\ [][NextLive]_vars
    /\ WF_vars(SendResponse)
    /\ \A i \in 1..MaxJobs : SF_vars(RunnerStep(i))


\* ---------------------------------------------- is_duplicate on its own
\* A call of is_duplicate with any row and any list of existing entries,
\* as the scrapers make it for each scraped row.
InitDup ==
    /\ SCRAPERS_AVAILABLE = TRUE
    /\ scraping_jobs = Empty
    /\ runners = <<>>
    /\ files = Empty
    /\ response = NoResponse
    /\ runs = <<>>
    /\ candidate = NoCandidate
    /\ \E new_row \in Rows, existing_entries \in RowLists(MaxExisting) :
           call = [new_row |-> new_row, existing_entries |-> existing_entries,
                   outcome |-> NotCalled]

CallIsDuplicate ==
    /\ call.outcome = NotCalled
    /\ call' = [call EXCEPT
                   !.outcome = is_duplicate(call.new_row, call.existing_entries)]
    /\ UNCHANGED <<registry, files, runs, candidate>>

NextDup == CallIsDuplicate
SpecDup == InitDup /\ [][NextDup]_vars


\* ---------------------------------- is_valid_vehicle_listing on its own
\* One turn of the first loop of process_vehicle_listings, for any parsed
\* listing, with nothing or one listing accepted before it.
InitValid ==
    /\ SCRAPERS_AVAILABLE = TRUE
    /\ scraping_jobs = Empty
    /\ runners = <<>>
    /\ files = Empty
    /\ response = NoResponse
    /\ call = NoCall
    /\ runs = <<>>
    /\ \E vehicle_data \in VehicleDatas,
          processed_listings \in {<<>>, <<Accepted>>} :
           candidate = [vehicle_data |-> vehicle_data,
                        processed_listings |-> processed_listings,
                        outcome |-> NotCalled]

\* if self.is_valid_vehicle_listing(vehicle_data):
\*     processed_listings.append(vehicle_data)
ValidateListing ==
    /\ candidate.outcome = NotCalled
    /\ LET valid == is_valid_vehicle_listing(candidate.vehicle_data) IN
       candidate' = [candidate EXCEPT
           !.outcome = Returns(valid),
           !.processed_listings =
               IF valid THEN Append(@, candidate.vehicle_data) ELSE @]
    /\ UNCHANGED <<registry, files, call, runs>>

NextValid == ValidateListing
SpecValid == InitValid /\ [][NextValid]_vars


\* =================================================================== claims
\* The job an entry belongs to is the dict object stored under the id: a
\* POST /scrape that draws the same id again stores a new object.
SameJob(id) ==
    /\ id \in DOMAIN scraping_jobs
    /\ id \in DOMAIN scraping_jobs'
    /\ scraping_jobs[id].obj = scraping_jobs'[id].obj

\* Job i's own dict is still the one stored under its id.
Registered(i) ==
    /\ runners[i].id \in DOMAIN scraping_jobs
    /\ scraping_jobs[runners[i].id].obj = i

\* No two POST /scrape requests drew the same id.
NoIdReuse ==
    \A i, j \in 1..Len(runners) : i # j => runners[i].id # runners[j].id

\* The step is taken by runner i.
StepOf(i) ==
    /\ i \in 1..Len(runners)
    /\ Len(runners') = Len(runners)
    /\ runners'[i] # runners[i]

StatusStep(a, b) ==
    \/ a = b
    \/ a = "pending" /\ b = "running"
    \/ a = "running" /\ b \in Terminal

\* C1: the status of a job's registry entry only ever moves
\* pending -> running -> completed or pending -> running -> failed.
C1_StatusStepsAct ==
    \A id \in JobIds :
        SameJob(id) =>
            StatusStep(scraping_jobs[id].status, scraping_jobs'[id].status)
C1_StatusWalk == [][C1_StatusStepsAct]_vars
\* C1 on the runs in which no id was drawn twice.
C1_StatusWalkUniqueIds == [][NoIdReuse' => C1_StatusStepsAct]_vars

\* C2: once a job's status is completed or failed, its registry entry never
\* changes again.
C2_FrozenAct ==
    \A id \in JobIds :
        (SameJob(id) /\ scraping_jobs[id].status \in Terminal) =>
            scraping_jobs'[id] = scraping_jobs[id]
C2_TerminalFrozen == [][C2_FrozenAct]_vars
\* C2 on the runs in which no id was drawn twice.
C2_TerminalFrozenUniqueIds == [][NoIdReuse' => C2_FrozenAct]_vars

\* C3: every job a reader is shown (GET /status, GET /jobs) has progress 100
\* exactly when its status is completed.
C3_ProgressIffCompleted ==
    \A id \in DOMAIN response.jobs :
        (response.jobs[id].status = "completed")
            <=> (response.jobs[id].progress = 100)
\* C3 on the runs in which no id was drawn twice.
C3_ProgressIffCompletedUniqueIds == NoIdReuse => C3_ProgressIffCompleted

\* C4: no write to a job's registry entry lowers its progress.
C4_MonotoneAct ==
    \A id \in JobIds :
        SameJob(id) => scraping_jobs'[id].progress >= scraping_jobs[id].progress
C4_ProgressMonotone == [][C4_MonotoneAct]_vars
\* C4 on the runs in which no id was drawn twice.
C4_ProgressMonotoneUniqueIds == [][NoIdReuse' => C4_MonotoneAct]_vars

\* A job dict that shows only part of a terminal update: the status says
\* completed or failed, and the message, progress or completed_at written
\* by the same update are not there yet.
Torn(job) ==
    \/ /\ job.status = "completed"
       /\ \/ job.progress # 100
          \/ job.completed_at = 0
          \/ job.message.text \notin
                 {"Simulation completed",
                  "Successfully scraped records from Classic Valuer",
                  "Successfully scraped records from Classic.com"}
    \/ /\ job.status = "failed"
       /\ \/ job.completed_at = 0
          \/ job.message.text \notin
                 {"Simulation failed", "Error",
                  "Classic Valuer scraping failed", "Error in Classic Valuer scraper",
                  "Classic.com scraping failed", "Error in Classic.com scraper"}

\* C5: no reader (GET /status, GET /jobs) is shown a job with only some of
\* the fields of a runner's terminal update written.
C5_NoTornRead == \A id \in DOMAIN response.jobs : ~Torn(response.jobs[id])
\* C5 on the runs in which no id was drawn twice.
C5_NoTornReadUniqueIds == NoIdReuse => C5_NoTornRead

\* C6: no exception leaves run_classic_valuer_background or
\* run_classic_com_background, also when the job was deleted during the run.
C6_RunnerNeverRaises ==
    \A i \in 1..Len(runners) : runners[i].phase # "raised"
\* C6 on the runs in which no id was drawn twice.
C6_RunnerNeverRaisesUniqueIds == NoIdReuse => C6_RunnerNeverRaises

\* The pipeline of runner r returned an unsuccessful result or raised.
PipelineFailed(r) == r.result.error # "" \/ r.exc = "OSError"
ErrorOf(r) == IF r.exc # "" THEN r.exc ELSE r.result.error

\* C7: when the pipeline of a registered job fails, its runner leaves the
\* job failed with the error in the message, and the runner's steps change
\* no other job's entry.
C7_FailureAct ==
    \A i \in 1..Len(runners) :
        StepOf(i) =>
            /\ (runners'[i].phase = "done" /\ PipelineFailed(runners'[i])
                    /\ Registered(i)') =>
                   /\ scraping_jobs'[runners[i].id].status = "failed"
                   /\ scraping_jobs'[runners[i].id].message.detail
                          = ErrorOf(runners'[i])
            /\ PipelineFailed(runners'[i]) =>
                   \A id \in JobIds :
                       (SameJob(id) /\ scraping_jobs[id].obj # i) =>
                           scraping_jobs'[id] = scraping_jobs[id]
C7_FailureIsolated == [][C7_FailureAct]_vars
\* C7 on the runs in which no id was drawn twice.
C7_FailureIsolatedUniqueIds == [][NoIdReuse' => C7_FailureAct]_vars

\* C8: completed_at is null while the job is pending or running, is never
\* written a second time, and is set once the job's runner has finished.
C8_CompletedAtAct ==
    /\ \A id \in DOMAIN scraping_jobs' :
           scraping_jobs'[id].completed_at # 0 =>
               scraping_jobs'[id].status \in Terminal
    /\ \A id \in JobIds :
           (SameJob(id) /\ scraping_jobs[id].completed_at # 0) =>
               scraping_jobs'[id].completed_at = scraping_jobs[id].completed_at
    /\ \A i \in 1..Len(runners') :
           (runners'[i].phase # "running" /\ Registered(i)') =>
               scraping_jobs'[runners'[i].id].completed_at # 0
C8_CompletedAtOnce == [][C8_CompletedAtAct]_vars
\* C8 on the runs in which no id was drawn twice.
C8_CompletedAtOnceUniqueIds == [][NoIdReuse' => C8_CompletedAtAct]_vars

\* C9: a POST /scrape that registers a job adds one key to the registry and
\* leaves every existing entry as it was, and no two running runners drive
\* the same id.
C9_CreateAct ==
    /\ Len(runners') = Len(runners) + 1 =>
           /\ Cardinality(DOMAIN scraping_jobs')
                  = Cardinality(DOMAIN scraping_jobs) + 1
           /\ \A id \in DOMAIN scraping_jobs :
                  /\ id \in DOMAIN scraping_jobs'
                  /\ scraping_jobs'[id] = scraping_jobs[id]
    /\ \A i, j \in 1..Len(runners') :
           (i # j /\ runners'[i].phase = "running" /\ runners'[j].phase = "running")
               => runners'[i].id # runners'[j].id
C9_CreateNeverOverwrites == [][C9_CreateAct]_vars

\* The id was registered by some POST /scrape and is no key of the registry
\* now: a DELETE /jobs/{id} removed it (nothing else removes a key).
Deleted(id) ==
    /\ id \notin DOMAIN scraping_jobs
    /\ \E i \in 1..Len(runners) : runners[i].id = id

\* The step is a POST /scrape that registers a job under id.
Registers(id) ==
    /\ Len(runners') = Len(runners) + 1
    /\ runners'[Len(runners')].id = id

\* What the readers answer about an id that is no key of the registry.
NotFoundAct(id) ==
    /\ (response'.op \in {"get_job_status", "get_job_results", "delete_job"}
            /\ response'.id = id /\ response = NoResponse)
           => response'.code = 404
    /\ (response'.op = "get_all_jobs" /\ response = NoResponse)
           => id \notin DOMAIN response'.jobs

\* C10: once DELETE /jobs/{id} has succeeded, the id stays out of the
\* registry, so GET /status/{id}, GET /results/{id} and a second
\* DELETE /jobs/{id} answer 404 and GET /jobs does not list it, whatever the
\* job's runner does afterwards.
C10_DeletedStaysDeleted ==
    [][\A id \in JobIds :
           Deleted(id) => (NotFoundAct(id) /\ id \notin DOMAIN scraping_jobs')]_vars

\* C10 up to the next POST /scrape that draws the id: reads of a deleted id
\* answer 404, GET /jobs does not list it, and no step other than a
\* POST /scrape drawing the same id puts it back (no runner step does).
C10_DeletedUntilIdDrawnAgain ==
    [][\A id \in JobIds :
           Deleted(id) =>
               /\ NotFoundAct(id)
               /\ id \in DOMAIN scraping_jobs' => Registers(id)]_vars

\* C11: a POST /scrape whose scraper_type is neither classic_valuer nor
\* classic_com is answered 400, and that step leaves the registry and the
\* runners as they were; no job or runner of another type ever exists.
C11_InvalidAct ==
    /\ \A type \in RequestTypes \ ScraperTypes, id \in JobIds :
           start_scraping(type, id) =>
               /\ response'.op = "start_scraping"
               /\ response'.code = 400
               /\ scraping_jobs' = scraping_jobs
               /\ runners' = runners
    /\ (response = NoResponse /\ response'.op = "start_scraping"
            /\ response'.code = 400)
           => (scraping_jobs' = scraping_jobs /\ runners' = runners)
    /\ \A id \in DOMAIN scraping_jobs' :
           scraping_jobs'[id].scraper_type \in ScraperTypes
    /\ \A i \in 1..Len(runners') : runners'[i].scraper_type \in ScraperTypes
C11_InvalidSourceRejected == [][C11_InvalidAct]_vars

\* C11 witness: a request was answered 400 while a job was registered.
C11_Witness ==
    /\ response.op = "start_scraping"
    /\ response.code = 400
    /\ scraping_jobs # Empty

\* C12: GET /results/{id} for a registered job whose status is pending,
\* running or failed is answered 400 with no records; it is answered 200
\* only when the status is completed.
C12_ResultsAct ==
    \A id \in DOMAIN scraping_jobs :
        (response = NoResponse /\ response'.op = "get_job_results"
             /\ response'.id = id)
            => /\ scraping_jobs[id].status \in {"pending", "running", "failed"}
                   => (response'.code = 400 /\ response'.data = <<>>)
               /\ response'.code = 200 => scraping_jobs[id].status = "completed"
C12_ResultsOnlyWhenCompleted == [][C12_ResultsAct]_vars

\* C12 witness: GET /results/{id} was answered 400 for a failed job whose
\* scraper had written a file.
C12_Witness ==
    /\ response.op = "get_job_results"
    /\ response.code = 400
    /\ response.id \in DOMAIN scraping_jobs
    /\ scraping_jobs[response.id].status = "failed"
    /\ files # Empty


\* str.lower() on the makes and models of the rows.
Lower(text) ==
    CASE text \in {"Ferrari", "FERRARI"} -> "ferrari"
      [] text \in {"F430", "f430"} -> "f430"
      [] OTHER -> text

Called == call.outcome # NotCalled
HasPrice(row) == normalize_price(row.Price).raised = ""
PriceOf(row) == normalize_price(row.Price).value
SameKey(a, b) == a.Make = b.Make /\ a.Model = b.Model /\ a.Date = b.Date
SameKeyIgnoringCase(a, b) ==
    /\ Lower(a.Make) = Lower(b.Make)
    /\ Lower(a.Model) = Lower(b.Model)
    /\ Lower(a.Date) = Lower(b.Date)
\* Every price of the call is a number and the candidate's is not zero.
AllPriced ==
    /\ HasPrice(call.new_row)
    /\ PriceOf(call.new_row) # 0
    /\ \A k \in 1..Len(call.existing_entries) : HasPrice(call.existing_entries[k])

\* --------------------------------------------- the scrapers, row by row
\* Three programs scrape rows and write them to a csv file:
\* run_classic_com_scraper_real (scraper_integration.py, source
\* "classic_com"), the script classic/classic.py ("classic.py") and
\* ImprovedClassicValuerScraper.scrape ("classic_valuer").  The first runs
\* in a worker thread and the second in a process of its own, so other runs
\* take steps between any two of theirs; the third is a coroutine that
\* awaits the browser between pages and before it saves.
Sources == {"classic_com", "classic.py", "classic_valuer"}

\* The listings a site shows: one car sold on one day, listed under either
\* spelling of the make, at 100, at 105 or with a price of zero.
Fragments ==
    { row \in Rows : /\ row.Model = "F430"
                     /\ row.Date = "01/07/2024"
                     /\ PriceOf(row) \in {0, 100, 105}
                     /\ HasPrice(row) }
Pages(n) == UNION { [1..k -> Fragments] : k \in 1..n }

\* OUTPUT_CSV of classic.py.
ClassicListingsCsv == FileName("classic_listings.csv", 0)

\* A run: its position, the locals of the scraper, and `before`, the runs
\* that had ended when it began (no code reads it).  new_data is
\* all_listings in the classic_valuer scraper.
NewRun(source, before) ==
    [source |-> source,
     step |-> IF source = "classic_valuer" THEN "scrape" ELSE "load",
     OUTPUT_CSV |-> IF source = "classic_valuer" THEN ValuerCsv ELSE None,
     existing_entries |-> <<>>, new_data |-> <<>>, scraped |-> 0,
     error |-> "", before |-> before]

Ended(run) == run.step \in {"done", "failed"}

\* A scraper is started: by a job runner (app.py:716-725 start the thread
\* or the background task that calls it) or from the command line.
StartRun(source) ==
    /\ Len(runs) < MaxRuns
    /\ runs' = Append(runs,
                      NewRun(source, {j \in 1..Len(runs) : Ended(runs[j])}))
    /\ UNCHANGED <<registry, files, call, candidate>>

AtStep(i, sources, step) ==
    /\ i \in 1..Len(runs)
    /\ runs[i].source \in sources
    /\ runs[i].step = step

\* OUTPUT_CSV is named (after the current second in scraper_integration.py)
\* and existing_entries is read from it if the file exists.
LoadExistingEntries(i) ==
    /\ AtStep(i, {"classic_com", "classic.py"}, "load")
    /\ \E t \in Stamps :
           LET output_csv == IF runs[i].source = "classic_com"
                             THEN FileName("classic_com", t)
                             ELSE ClassicListingsCsv
           IN  runs' = [runs EXCEPT
                   ![i].OUTPUT_CSV = output_csv,
                   ![i].existing_entries =
                       IF output_csv \in DOMAIN files THEN files[output_csv]
                       ELSE <<>>,
                   ![i].step = "scrape"]
    /\ UNCHANGED <<registry, files, call, candidate>>

\* The loop over listing_data as it would be without the try/except around
\* its body: an exception in one turn ends the run.
ScrapeListingAborting(i) ==
    /\ AtStep(i, {"classic_com", "classic.py"}, "scrape")
    /\ runs[i].scraped < MaxFragments
    /\ \/ \E row \in Fragments :
            LET outcome == is_duplicate(row, runs[i].existing_entries) IN
            runs' = [runs EXCEPT
                ![i].scraped = @ + 1,
                ![i].new_data = IF outcome = Returns(FALSE) THEN Append(@, row) ELSE @,
                ![i].step = IF outcome.raised # "" THEN "failed" ELSE @,
                ![i].error = IF outcome.raised # "" THEN outcome.raised ELSE @]
       \/ runs' = [runs EXCEPT ![i].scraped = @ + 1, ![i].step = "failed",
                                ![i].error = "scrape error"]
    /\ UNCHANGED <<registry, files, call, candidate>>

\* One turn of the loop over listing_data: the page gives a row, which is
\* appended to new_data unless is_duplicate returns True; an exception in
\* the loop body (is_duplicate's included) skips the listing.
ScrapeListing(i) ==
    /\ AtStep(i, {"classic_com", "classic.py"}, "scrape")
    /\ runs[i].scraped < MaxFragments
    /\ \/ \E row \in Fragments :
            runs' = [runs EXCEPT
                ![i].scraped = @ + 1,
                ![i].new_data =
                    IF is_duplicate(row, runs[i].existing_entries) = Returns(FALSE)
                    THEN Append(@, row) ELSE @]
       \/ runs' = [runs EXCEPT ![i].scraped = @ + 1]
    /\ UNCHANGED <<registry, files, call, candidate>>

\* "Save to CSV": df.to_csv(OUTPUT_CSV) replaces the file by new_data;
\* classic.py opens the file with 'a' and adds new_data at its end.
SaveToCsv(i) ==
    /\ AtStep(i, {"classic_com", "classic.py"}, "scrape")
    /\ LET run == runs[i]
           old == IF run.OUTPUT_CSV \in DOMAIN files
                  THEN files[run.OUTPUT_CSV] ELSE <<>>
       IN  \/ /\ run.new_data = <<>>
              /\ files' = files
              /\ runs' = [runs EXCEPT ![i].step = "done"]
           \/ /\ run.new_data # <<>>
              /\ files' = Put(files, run.OUTPUT_CSV,
                              IF run.source = "classic_com" THEN run.new_data
                              ELSE old \o run.new_data)
              /\ runs' = [runs EXCEPT ![i].step = "done"]
           \/ /\ run.new_data # <<>>
              /\ files' \in IF run.source = "classic_com"
                            THEN AfterFailedWrite(run.OUTPUT_CSV) ELSE {files}
              /\ runs' = [runs EXCEPT ![i].step = "failed",
                                      ![i].error = "write error"]
    /\ UNCHANGED <<registry, call, candidate>>

\* The key of the second loop of process_vehicle_listings; every row here
\* has the same production_year.
vehicle_key(listing) ==
    <<Lower(listing.Make), Lower(listing.Model), listing.Price>>

RECURSIVE unique_listings(_, _)
unique_listings(processed_listings, seen_vehicles) ==
    IF processed_listings = <<>> THEN <<>>
    ELSE LET listing == Head(processed_listings) IN
         IF vehicle_key(listing) \in seen_vehicles
         THEN unique_listings(Tail(processed_listings), seen_vehicles)
         ELSE <<listing>> \o
              unique_listings(Tail(processed_listings),
                              seen_vehicles \cup {vehicle_key(listing)})

\* The first loop of process_vehicle_listings from the k-th raw listing on:
\* a listing whose processing raises (k \in raises) is skipped by the
\* except clause, every other one is parsed and appended.  (Every row here
\* passes is_valid_vehicle_listing, and two raw texts with one hash give one
\* key.)
RECURSIVE processed_listings(_, _, _)
processed_listings(raw_listings, raises, k) ==
    IF k > Len(raw_listings) THEN <<>>
    ELSE IF k \in raises
    THEN processed_listings(raw_listings, raises, k + 1)
    ELSE <<raw_listings[k]>> \o processed_listings(raw_listings, raises, k + 1)

\* process_vehicle_listings: of the listings of one page that were parsed,
\* the first with each key.
process_vehicle_listings(raw_listings, raises) ==
    unique_listings(processed_listings(raw_listings, raises, 1), {})

\* One turn of the loop of scrape_market_data: the listings of a page are
\* processed and all_listings is extended by them.
scrape_market_data(i) ==
    /\ AtStep(i, {"classic_valuer"}, "scrape")
    /\ runs[i].scraped < MaxFragments
    /\ \E raw_listings \in Pages(MaxFragments - runs[i].scraped) :
           \E raises \in SUBSET (1..Len(raw_listings)) :
               runs' = [runs EXCEPT
                   ![i].scraped = @ + Len(raw_listings),
                   ![i].new_data =
                       @ \o process_vehicle_listings(raw_listings, raises)]
    /\ UNCHANGED <<registry, files, call, candidate>>

\* scrape_market_data returns and scrape saves the listings, if there are
\* any, with save_results_csv, which opens classic_valuer_improved.csv
\* with 'w'.
save_results_csv(i) ==
    /\ AtStep(i, {"classic_valuer"}, "scrape")
    /\ LET run == runs[i] IN
           \/ /\ run.new_data = <<>>
              /\ files' = files
              /\ runs' = [runs EXCEPT ![i].step = "failed",
                                      ![i].error = "No valid listings found"]
           \/ /\ run.new_data # <<>>
              /\ files' = Put(files, run.OUTPUT_CSV, run.new_data)
              /\ runs' = [runs EXCEPT ![i].step = "done"]
           \/ /\ run.new_data # <<>>
              /\ files' \in AfterFailedWrite(run.OUTPUT_CSV)
              /\ runs' = [runs EXCEPT ![i].step = "failed",
                                      ![i].error = "write error"]
    /\ UNCHANGED <<registry, call, candidate>>

InitRuns ==
    /\ SCRAPERS_AVAILABLE = TRUE
    /\ scraping_jobs = Empty
    /\ runners = <<>>
    /\ files = Empty
    /\ response = NoResponse
    /\ call = NoCall
    /\ runs = <<>>
    /\ candidate = NoCandidate

NextRuns ==
    \/ \E source \in Sources : StartRun(source)
    \/ \E i \in 1..MaxRuns : LoadExistingEntries(i)
    \/ \E i \in 1..MaxRuns : ScrapeListing(i)
    \/ \E i \in 1..MaxRuns : SaveToCsv(i)
    \/ \E i \in 1..MaxRuns : scrape_market_data(i)
    \/ \E i \in 1..MaxRuns : save_results_csv(i)

SpecRuns == InitRuns /\ [][NextRuns]_vars

\* Writing the output file of runner r's scraper failed: df.to_csv or
\* save_results_csv raised.
PersistFailed(r) == r.result.error = "write error" \/ r.exc = "OSError"

\* C20: a registered job whose scraper failed to write its output file is
\* never completed, keeps csv_file null and total_records 0, and is failed
\* once its runner has finished.
C20_PersistFailureFails ==
    \A i \in 1..Len(runners) :
        (PersistFailed(runners[i]) /\ Registered(i)) =>
            LET job == scraping_jobs[runners[i].id] IN
            /\ job.status # "completed"
            /\ job.csv_file = None
            /\ job.total_records = 0
            /\ runners[i].phase = "done" => job.status = "failed"
\* C20 on the runs in which no id was drawn twice.
C20_PersistFailureFailsUniqueIds == NoIdReuse => C20_PersistFailureFails

\* ------------------------------------------------ the duplicate test
\* C13: is_duplicate returns True when some existing row with the same
\* make, model and sale date has a price less than 5% of the candidate's
\* price away from it, or exactly 5% away, and False when every such row
\* is 6% of the candidate's price or more away.
C13_Tolerance ==
    LET new_row == call.new_row
        n == PriceOf(new_row)
        such == { k \in 1..Len(call.existing_entries) :
                      SameKey(new_row, call.existing_entries[k]) }
        away(k) == Abs(PriceOf(call.existing_entries[k]) - n)
    IN  (Called /\ HasPrice(new_row)) =>
            /\ (\E k \in such :
                    /\ HasPrice(call.existing_entries[k])
                    /\ \/ 100 * away(k) < 5 * n
                       \/ (100 * away(k) = 5 * n /\ n > 0))
                   => call.outcome = Returns(TRUE)
            /\ (\A k \in such :
                    /\ HasPrice(call.existing_entries[k])
                    /\ 100 * away(k) >= 6 * n)
                   => call.outcome = Returns(FALSE)

\* C13 for calls in which every price is a number and the candidate's is
\* not zero.
C13_TolerancePriced == AllPriced => C13_Tolerance

\* C14: is_duplicate returns True when some existing row has the
\* candidate's make, model and sale date up to letter case and a price
\* within 5% of the candidate's (every price of the call being a number).
C14_CaseInsensitive ==
    (Called /\ AllPriced) =>
        ((\E k \in 1..Len(call.existing_entries) :
              /\ SameKeyIgnoringCase(call.new_row, call.existing_entries[k])
              /\ WithinTolerance(PriceOf(call.existing_entries[k]),
                                 PriceOf(call.new_row)))
            => call.outcome = Returns(TRUE))

\* C15: is_duplicate never raises, and returns False for a candidate whose
\* price is empty, has no digit or is zero.
C15_NeverRaises ==
    Called =>
        /\ call.outcome.raised = ""
        /\ (~HasPrice(call.new_row) \/ PriceOf(call.new_row) = 0)
               => call.outcome = Returns(FALSE)

\* --------------------------------------------------- the scraper runs
\* Two rows are near-duplicates: same make, model and sale date, and each
\* price, a number other than zero, within 5% of the other.
NearDuplicate(a, b) ==
    /\ SameKey(a, b)
    /\ HasPrice(a) /\ HasPrice(b)
    /\ PriceOf(a) # 0 /\ PriceOf(b) # 0
    /\ WithinTolerance(PriceOf(a), PriceOf(b))
    /\ WithinTolerance(PriceOf(b), PriceOf(a))

Done(i) == i \in 1..Len(runs) /\ runs[i].step = "done"
RowsOf(seq) == { seq[k] : k \in 1..Len(seq) }

\* C16: the rows a run has accepted (records_found, the job's
\* total_records, is their number) hold no two near-duplicates: of two
\* such fragments of a batch the second is rejected.
C16_BatchDeduplicated ==
    \A i \in 1..Len(runs) :
        Done(i) =>
            \A a, b \in 1..Len(runs[i].new_data) :
                a < b => ~NearDuplicate(runs[i].new_data[a], runs[i].new_data[b])

\* C17: a run accepts no row that is a near-duplicate of a row accepted by
\* a run of the same source that had completed before it began.
C17_HistoryDeduplicated ==
    \A i \in 1..Len(runs) :
        Done(i) =>
            \A j \in runs[i].before :
                (Done(j) /\ runs[j].source = runs[i].source) =>
                    \A a \in RowsOf(runs[i].new_data), b \in RowsOf(runs[j].new_data) :
                        ~NearDuplicate(a, b)

\* C18: a step that saves a run's rows leaves every file with the rows it
\* had, in their places, before any new ones.
C18_AppendAct ==
    (\E i \in 1..Len(runs) : runs[i].step = "scrape" /\ runs'[i].step = "done")
        => \A f \in DOMAIN files :
               /\ f \in DOMAIN files'
               /\ Len(files'[f]) >= Len(files[f])
               /\ SubSeq(files'[f], 1, Len(files[f])) = files[f]
C18_AppendOnly == [][C18_AppendAct]_vars

\* C17 and C18 for the script classic.py alone, which reads
\* classic_listings.csv before it scrapes and opens it with 'a' to save.
OnlyClassicPy == \A i \in 1..Len(runs) : runs[i].source = "classic.py"
C17_HistoryDeduplicatedClassicPy == OnlyClassicPy => C17_HistoryDeduplicated
C18_AppendOnlyClassicPy == [][OnlyClassicPy' => C18_AppendAct]_vars

\* Neither run had ended when the other began.
Concurrent(i, j) ==
    /\ i # j
    /\ i \notin runs[j].before
    /\ j \notin runs[i].before

\* C19: two concurrent runs of one source that have both completed have
\* accepted no near-duplicates of each other's rows, and the rows each has
\* written are in its file.
C19_ConcurrentRunsSerialised ==
    \A i, j \in 1..Len(runs) :
        (Concurrent(i, j) /\ Done(i) /\ Done(j)
             /\ runs[i].source = runs[j].source) =>
            /\ \A a \in RowsOf(runs[i].new_data), b \in RowsOf(runs[j].new_data) :
                   ~NearDuplicate(a, b)
            /\ runs[i].new_data # <<>> =>
                   /\ runs[i].OUTPUT_CSV \in DOMAIN files
                   /\ RowsOf(runs[i].new_data) \subseteq RowsOf(files[runs[i].OUTPUT_CSV])

\* seq is the beginning of longer.
IsPrefix(seq, longer) ==
    /\ Len(seq) <= Len(longer)
    /\ SubSeq(longer, 1, Len(seq)) = seq

\* C21: a turn of a scraper's loop over its fragments, whatever happens to
\* the fragment in it (it is accepted, rejected, or its processing raises),
\* leaves the run in the loop with no error and with the rows accepted so
\* far in their places, so the fragments after a failing one are still
\* processed; a run that ends failed does so because saving failed or
\* because no row at all was accepted.
C21_SkipAct ==
    \A i \in 1..Len(runs) :
        /\ runs'[i].scraped > runs[i].scraped =>
               /\ runs'[i].step = "scrape"
               /\ runs'[i].error = ""
               /\ IsPrefix(runs[i].new_data, runs'[i].new_data)
               /\ Len(runs'[i].new_data) - Len(runs[i].new_data)
                      <= runs'[i].scraped - runs[i].scraped
        /\ runs'[i].step = "failed" =>
               \/ runs'[i].error = "write error"
               \/ runs'[i].error = "No valid listings found"
                      /\ runs'[i].new_data = <<>>
FailureTexts ==
    {"Simulation failed", "Error",
     "Classic Valuer scraping failed", "Error in Classic Valuer scraper",
     "Classic.com scraping failed", "Error in Classic.com scraper"}

\* C22: a step that leaves a job failed leaves its progress neither 0 nor
\* 100 and no lower than it was, and does not change it once the status is
\* failed; when the job's runner has finished, the message of a failed job
\* is a failure description.
C22_FailedAct ==
    /\ \A id \in JobIds :
           (SameJob(id) /\ scraping_jobs'[id].status = "failed") =>
               /\ scraping_jobs'[id].progress \notin {0, 100}
               /\ scraping_jobs'[id].progress >= scraping_jobs[id].progress
               /\ scraping_jobs[id].status = "failed" =>
                      scraping_jobs'[id].progress = scraping_jobs[id].progress
    /\ \A i \in 1..Len(runners') :
           (runners'[i].phase = "done" /\ Registered(i)'
                /\ scraping_jobs'[runners'[i].id].status = "failed") =>
               scraping_jobs'[runners'[i].id].message.text \in FailureTexts
C22_FailedKeepsProgressUniqueIds == [][NoIdReuse' => C22_FailedAct]_vars

\* ------------------------------------------------- the validity test
\* The criteria a parsed listing meets, in the words of the claim.
CriteriaMet(vehicle_data) ==
    { c \in {"make or model", "year", "price", "description"} :
          \/ c = "make or model"
                 /\ (vehicle_data.make # "" \/ vehicle_data.model # "")
          \/ c = "year" /\ vehicle_data.production_year # ""
          \/ c = "price" /\ vehicle_data.sold_price # <<>>
          \/ c = "description" /\ Len(vehicle_data.description) > 20 }

\* C23: is_valid_vehicle_listing returns True exactly for the listings
\* that meet at least two of the four criteria (make or model, production
\* year, price, description longer than 20 characters), and a listing it
\* rejects is not added to processed_listings, whose length is unchanged.
C23_ValidAct ==
    (candidate.outcome = NotCalled /\ candidate'.outcome # NotCalled) =>
        LET vehicle_data == candidate.vehicle_data
            two == Cardinality(CriteriaMet(vehicle_data)) >= 2
        IN  /\ candidate'.outcome = Returns(two)
            /\ two => candidate'.processed_listings
                           = Append(candidate.processed_listings, vehicle_data)
            /\ ~two =>
                   /\ candidate'.processed_listings = candidate.processed_listings
                   /\ \A k \in 1..Len(candidate'.processed_listings) :
                          candidate'.processed_listings[k] # vehicle_data
C23_ValidIffTwoCriteria == [][C23_ValidAct]_vars

\* C23 witness: a listing with no make, no model, no year, no price and a
\* description of 10 characters was rejected, after another was accepted.
C23_Witness ==
    /\ candidate.outcome = Returns(FALSE)
    /\ candidate.vehicle_data = VehicleData("", "", "", <<>>, Description(10))
    /\ candidate.processed_listings = <<Accepted>>

\* ------------------------------------------------------- the preview
Min(a, b) == IF a <= b THEN a ELSE b

\* The job of runner i is completed and its runner has finished.
Finished(i) ==
    /\ runners[i].phase = "done"
    /\ Registered(i)
    /\ scraping_jobs[runners[i].id].status = "completed"

\* C24: the results field of every job holds at most 10 records, and once
\* the runner of a completed job has finished it holds the first
\* min(total_records, 10) records the job accepted.
C24_PreviewAt(i) ==
    LET job == scraping_jobs[runners[i].id] IN
    job.results = ListOf(Min(job.total_records, 10))
C24_Preview ==
    /\ \A id \in DOMAIN scraping_jobs : Len(scraping_jobs[id].results) <= 10
    /\ \A i \in 1..Len(runners) : Finished(i) => C24_PreviewAt(i)
\* C24 for every job but those of the classic_valuer simulation, on the
\* runs in which no id was drawn twice.
C24_PreviewButValuerSimulation ==
    NoIdReuse =>
        /\ \A id \in DOMAIN scraping_jobs : Len(scraping_jobs[id].results) <= 10
        /\ \A i \in 1..Len(runners) :
               (Finished(i) /\ (SCRAPERS_AVAILABLE
                                   \/ runners[i].scraper_type = "classic_com"))
                   => C24_PreviewAt(i)

\* ------------------------------------------------- the output files
\* No other runner's scraper wrote a file of the same name.
OnlyWriter(i) ==
    \A j \in 1..Len(runners) :
        j # i => runners[j].result.csv_file # runners[i].result.csv_file

\* C25: once a job's runner has finished and its id is no key of the
\* registry (DELETE /jobs/{id} removed it, before or after the runner
\* finished), the file the job's scraper wrote is not there any more.
C25_OutputReleased ==
    \A i \in 1..Len(runners) :
        (/\ runners[i].phase # "running"
         /\ runners[i].id \notin DOMAIN scraping_jobs
         /\ runners[i].result.csv_file # None
         /\ OnlyWriter(i))
            => runners[i].result.csv_file \notin DOMAIN files

\* What GET /results/{id} returns for a completed job: the rows of its
\* csv file when it exists, its preview otherwise.
GetResults(jobs, dir, id) ==
    IF jobs[id].csv_file # None /\ jobs[id].csv_file \in DOMAIN dir
    THEN dir[jobs[id].csv_file]
    ELSE jobs[id].results

\* C26: no step of the runner of another job changes what
\* GET /results/{id} returns for a completed job.
C26_StableAct ==
    \A id \in JobIds, j \in 1..Len(runners) :
        (/\ StepOf(j)
         /\ SameJob(id)
         /\ scraping_jobs[id].obj # j
         /\ scraping_jobs[id].status = "completed"
         /\ scraping_jobs'[id].status = "completed")
            => GetResults(scraping_jobs', files', id)
                   = GetResults(scraping_jobs, files, id)
C26_ResultsStable == [][C26_StableAct]_vars
\* C26 on the runs in which no id was drawn twice.
C26_ResultsStableUniqueIds == [][NoIdReuse' => C26_StableAct]_vars

\* C27: a DELETE /jobs/{id} that removes a job leaves every other entry of
\* the registry as it was, leaves the csv file of every other job in place
\* with its rows, and so leaves what GET /results returns for every other
\* completed job.
C27_DeleteAct ==
    \A id \in DOMAIN scraping_jobs :
        id \notin DOMAIN scraping_jobs' =>
            \A other \in DOMAIN scraping_jobs \ {id} :
                /\ other \in DOMAIN scraping_jobs'
                /\ scraping_jobs'[other] = scraping_jobs[other]
                /\ scraping_jobs[other].csv_file \in DOMAIN files =>
                       /\ scraping_jobs[other].csv_file \in DOMAIN files'
                       /\ files'[scraping_jobs[other].csv_file]
                              = files[scraping_jobs[other].csv_file]
                /\ scraping_jobs[other].status = "completed" =>
                       GetResults(scraping_jobs', files', other)
                           = GetResults(scraping_jobs, files, other)
C27_DeleteChangesOneJob == [][C27_DeleteAct]_vars

\* C28: every job whose status is failed has total_records 0, an empty
\* results field and a null csv_file.
C28_FailedHasNoResults ==
    \A id \in DOMAIN scraping_jobs :
        scraping_jobs[id].status = "failed" =>
            /\ scraping_jobs[id].total_records = 0
            /\ scraping_jobs[id].results = <<>>
            /\ scraping_jobs[id].csv_file = None
\* C28 on the runs in which no id was drawn twice.
C28_FailedHasNoResultsUniqueIds == NoIdReuse => C28_FailedHasNoResults

\* ------------------------------------------------- the pages of a run
\* C30: all_listings of a classic_valuer run, which scrape_market_data
\* returns, never holds two listings with the same key (lower-cased make,
\* lower-cased model, production year, sold price).
C30_NoDuplicateKeys ==
    \A i \in 1..Len(runs) :
        runs[i].source = "classic_valuer" =>
            \A a, b \in 1..Len(runs[i].new_data) :
                a < b => vehicle_key(runs[i].new_data[a])
                             # vehicle_key(runs[i].new_data[b])

\* ------------------------------------------------- every job ends
\* Job i was created by a POST /scrape.
Created(i) == i \in 1..Len(runners)

\* Job i's entry shows completed or failed, or its id is no key of the
\* registry (a DELETE removed it).
Settled(i) ==
    /\ Created(i)
    /\ \/ runners[i].id \notin DOMAIN scraping_jobs
       \/ Registered(i) /\ scraping_jobs[runners[i].id].status \in Terminal

\* C29: every job that was created and is never deleted eventually shows
\* status completed or failed in its registry entry.
C29_EveryJobEnds == \A i \in 1..MaxJobs : Created(i) ~> Settled(i)
\* C29 on the runs in which no id was drawn twice.
C29_EveryJobEndsUniqueIds ==
    \A i \in 1..MaxJobs : Created(i) ~> (Settled(i) \/ ~NoIdReuse)

====
